---- MODULE Spec2Model ----
(***************************************************************************)
(* Model of zip_media_time_sync.py: extraction of a ZIP archive, pairing   *)
(* of JSON sidecars with media files, and the timestamp writer.            *)
(*                                                                         *)
(* Representation.  A file name is the sequence of its dot-delimited       *)
(* segments ("a.jpg.json" is <<"a","jpg","json">>, ".." is <<"","","">>),  *)
(* so that splitting and joining on "." are exact.  A path is the sequence *)
(* of its components (names) from the filesystem root.  Python's None is   *)
(* the empty sequence, which is neither a name nor a path of a file.       *)
(***************************************************************************)
EXTENDS Integers, Sequences, FiniteSets, TLC

VARIABLES
    dry_run,            \* args.dry_run
    case_insensitive,   \* args.case_insensitive
    WINDOWS_AVAILABLE,  \* module flag set by the pywin32 import
    MUTAGEN_AVAILABLE,  \* whether `from mutagen.mp4 import MP4` succeeds
    utc_offset,         \* local time zone of the process, seconds east of UTC
    archive,            \* zf.infolist(): the members of the ZIP, in order
    fs,                 \* the filesystem: absolute path -> file or directory
    pc,                 \* position of the process
    walk,               \* sidecar paths the rglob walk has still to yield
    results,            \* scan_and_update: results
    json_path,          \* scan_and_update: json_path of the current iteration
    media_path,         \* scan_and_update: media_path of the current iteration
    photo_taken_time,   \* scan_and_update: photo_taken_time (sequence of 0 or 1 value)
    creation_time,      \* scan_and_update: creation_time (sequence of 0 or 1 value)
    exc,                \* the exception that left scan_and_update / a call, "" if none
    log_error,          \* the last logging.error message of main, "" if none
    exit_code,          \* process exit status, -1 while running
    json_filename,      \* candidate_media_name_from_json: argument
    candidate_name      \* candidate_media_name_from_json: return value

vars == <<dry_run, case_insensitive, WINDOWS_AVAILABLE, MUTAGEN_AVAILABLE, utc_offset, archive, fs,
          pc, walk, results, json_path, media_path, photo_taken_time,
          creation_time, exc, log_error, exit_code, json_filename, candidate_name>>

None == <<>>

\* ------------------------------------------------------------------ bounds
MaxSegs == 5
MaxMembers == 4

\* ------------------------------------------------------------- str helpers
SeqLast(s) == s[Len(s)]

\* str.lower() on the segments the model uses
LowerSeg(s) ==
    CASE s = "A" -> "a"
      [] s = "V" -> "v"
      [] s = "JPG" -> "jpg"
      [] s = "Jpg" -> "jpg"
      [] s = "MOV" -> "mov"
      [] s = "JSON" -> "json"
      [] OTHER -> s

\* name.lower(): dots are kept, every segment is lowered
Lower(name) == [i \in 1..Len(name) |-> LowerSeg(name[i])]

\* json_filename.rsplit('.', 3): at most four parts, the first one keeps its dots
rsplit3(name) ==
    IF Len(name) <= 4
    THEN [i \in 1..Len(name) |-> <<name[i]>>]
    ELSE <<SubSeq(name, 1, Len(name) - 3)>>
         \o [i \in 1..3 |-> <<name[Len(name) - 3 + i]>>]

\* split_text[1] raises IndexError when the name has no dot and is "json"
candidate_raises(name) ==
    LET split_text == rsplit3(name)
    IN  SeqLast(split_text) = <<"json">> /\ Len(split_text) < 2

candidate_media_name_from_json_idx2(name) ==
    LET split_text == rsplit3(name)
    IN  IF SeqLast(split_text) = <<"json">> /\ Len(split_text) >= 2
           /\ split_text[Len(split_text) - 1] # <<"json">>
        THEN split_text[1] \o split_text[2]
        ELSE None

candidate_media_name_from_json_strip1(name) ==
    IF SeqLast(name) = "json" /\ Len(name) >= 2 /\ name[Len(name) - 1] # "json"
    THEN SubSeq(name, 1, Len(name) - 1)
    ELSE None

\* split_text[0] is split_text[1] here, split_text[1] is split_text[2]
candidate_media_name_from_json(name) ==
    LET split_text == rsplit3(name)
    IN  IF SeqLast(split_text) = <<"json">> /\ Len(split_text) >= 2
           /\ split_text[2] # <<"json">>
        THEN split_text[1] \o split_text[2]
        ELSE None

\* ------------------------------------------------------------ path helpers
\* Path.parent and Path.name
Parent(p) == SubSeq(p, 1, Len(p) - 1)
PathName(p) == p[Len(p)]

\* Path.with_name(name)
with_name(p, name) == Parent(p) \o <<name>>

\* Path.exists(): true of files and of directories
exists(fsys, p) == p \in DOMAIN fsys

\* Path.is_file()
is_file(fsys, p) == p \in DOMAIN fsys /\ fsys[p].kind = "file"

\* Path.iterdir(): the entries directly inside directory d
iterdir(fsys, d) == {q \in DOMAIN fsys : Len(q) = Len(d) + 1 /\ Parent(q) = d}

\* ------------------------------------------------------- find_matching_media
find_matching_media_first(fsys, jp, ci) ==
    LET cand == candidate_media_name_from_json(PathName(jp))
        direct_candidate == with_name(jp, cand)
        lower_candidate == Lower(cand)
        matches == {q \in iterdir(fsys, Parent(jp)) :
                        is_file(fsys, q) /\ Lower(PathName(q)) = lower_candidate}
    IN  IF cand = None THEN None
        ELSE IF exists(fsys, direct_candidate) THEN direct_candidate
        ELSE IF ~ci THEN None
        ELSE IF matches # {} THEN CHOOSE q \in matches : TRUE
        ELSE None

find_matching_media(fsys, jp, ci) ==
    LET cand == candidate_media_name_from_json(PathName(jp))
        direct_candidate == with_name(jp, cand)
        lower_candidate == Lower(cand)
        matches == {q \in iterdir(fsys, Parent(jp)) :
                        is_file(fsys, q) /\ Lower(PathName(q)) = lower_candidate}
    IN  IF cand = None THEN None
        ELSE IF exists(fsys, direct_candidate) THEN direct_candidate
        ELSE IF ~ci THEN None
        ELSE IF Cardinality(matches) = 1 THEN CHOOSE q \in matches : TRUE
        ELSE None

\* ------------------------------------------------------------- file records
\* Clock reading (epoch seconds) at which the run creates and rewrites files
NowTime == 1800000000

NoExif == [loadable |-> TRUE, DateTime |-> None, DateTimeOriginal |-> None,
           DateTimeDigitized |-> None, SceneType |-> "absent"]
NoTags == [day |-> None, mod |-> None]

\* the JSON text of a sidecar, as json.load and the two .get calls see it
JsonTs(form, whole, frac) == [form |-> form, whole |-> whole, frac |-> frac]
JsonKey(form, ts) == [form |-> form, ts |-> ts]
NoKey == JsonKey("missing", JsonTs("missing", 0, 0))
JsonDoc(form, p, c) == [form |-> form, photoTakenTime |-> p, creationTime |-> c]
Malformed == JsonDoc("malformed", NoKey, NoKey)

\* a regular file as the extraction writes it
FileRec(fmt, json, exif) ==
    [kind |-> "file", fmt |-> fmt, json |-> json, exif |-> exif, tags |-> NoTags,
     mtime |-> NowTime, atime |-> NowTime, birth |-> NowTime]
DirRec == [FileRec("dir", Malformed, NoExif) EXCEPT !.kind = "dir"]

\* --------------------------------------------------- datetime formatting
\* datetime.fromtimestamp(ts).strftime(...): local civil date and time of
\* day of ts, as <<style, year, month, day, hour, minute, second>>.  The
\* proleptic Gregorian date is computed from the day number in steps: era of
\* 400 years, day of era, year of era, day of year, month.
civil_month(style, yr, doy, mp, sod) ==
    <<style,
      yr + (IF mp < 10 THEN 0 ELSE 1),
      IF mp < 10 THEN mp + 3 ELSE mp - 9,
      doy - (153 * mp + 2) \div 5 + 1,
      sod \div 3600, (sod % 3600) \div 60, sod % 60>>

civil_doy(style, era, yoe, doy, sod) ==
    civil_month(style, yoe + era * 400, doy, (5 * doy + 2) \div 153, sod)

civil_yoe(style, era, doe, yoe, sod) ==
    civil_doy(style, era, yoe, doe - (365 * yoe + yoe \div 4 - yoe \div 100), sod)

civil_doe(style, era, doe, sod) ==
    civil_yoe(style, era, doe,
              (doe - doe \div 1460 + doe \div 36524 - doe \div 146096) \div 365, sod)

civil_era(style, z, era, sod) == civil_doe(style, era, z - era * 146097, sod)

civil_days(style, z, sod) == civil_era(style, z, z \div 146097, sod)

localtime(style, loc) == civil_days(style, loc \div 86400 + 719468, loc % 86400)

strftime(style, ts, off) == localtime(style, ts + off)

\* ------------------------------------------------ parse_timestamp_from_json
\* extract(obj): <<int(float(ts))>>, or None
extract(obj) ==
    IF obj.form # "dict" THEN None
    ELSE IF obj.ts.form \in {"missing", "null"} THEN None
    ELSE IF obj.ts.form \in {"num", "str"} THEN <<obj.ts.whole>>
    ELSE None

\* [exc, val]: the exception that escapes, else the value returned:
\* <<photo_taken_time, creation_time>> or None
parse_timestamp_from_json(fsys, jp) ==
    LET readable == is_file(fsys, jp) /\ fsys[jp].fmt = "json"
                    /\ fsys[jp].json.form # "malformed"
        data == fsys[jp].json
        p == extract(data.photoTakenTime)
        c == extract(data.creationTime)
    IN  IF ~readable THEN [exc |-> "", val |-> None]
        ELSE IF data.form # "object" THEN [exc |-> "AttributeError", val |-> None]
        ELSE IF p # None /\ c # None THEN [exc |-> "", val |-> <<p[1], c[1]>>]
        ELSE [exc |-> "", val |-> None]

\* ------------------------------------------------------- timestamp writer
\* Path.suffix without its dot ("" when the name has none)
suffix(p) ==
    LET n == PathName(p)
    IN  IF Len(n) >= 2 /\ SeqLast(n) # "" /\ ~(Len(n) = 2 /\ n[1] = "")
        THEN SeqLast(n) ELSE ""

\* _update_jpeg_date: [exc, fs]
update_jpeg_date(fsys, p, ts, off) ==
    LET exif_date == strftime("exif", ts, off)
        old == IF fsys[p].exif.loadable THEN fsys[p].exif ELSE NoExif
        new == [old EXCEPT !.DateTime = exif_date,
                           !.DateTimeOriginal = exif_date,
                           !.DateTimeDigitized = exif_date,
                           !.SceneType = IF @ = "int" THEN "bytes" ELSE @]
    IN  IF fsys[p].kind # "file" \/ fsys[p].fmt # "jpeg"
        THEN [exc |-> "cannot identify image file", fs |-> fsys]
        ELSE [exc |-> "",
              fs |-> [fsys EXCEPT ![p].exif = new, ![p].mtime = NowTime]]

\* _update_movie_date: [exc, fs]
update_movie_date(fsys, p, ts, off, mutagen) ==
    LET iso_date == strftime("iso", ts, off)
    IN  IF ~mutagen
        THEN [exc |-> "mutagen library is required for movie file support",
              fs |-> fsys]
        ELSE IF fsys[p].kind # "file" \/ fsys[p].fmt # "mp4"
        THEN [exc |-> "not a MP4 file", fs |-> fsys]
        ELSE [exc |-> "",
              fs |-> [fsys EXCEPT ![p].tags = [day |-> iso_date, mod |-> iso_date],
                                  ![p].mtime = NowTime]]

\* os.utime(file_path, (timestamp, timestamp)) once the metadata step r
\* has run; an exception of that step propagates instead
utime_after(r, p, ts) ==
    IF r.exc # "" THEN r
    ELSE [exc |-> "", fs |-> [r.fs EXCEPT ![p].mtime = ts, ![p].atime = ts]]

\* the dispatch of update_date_taken on the lowered suffix
update_by_ext(fsys, p, ts, off, mutagen, ext) ==
    IF ext \in {"jpg", "jpeg"} THEN update_jpeg_date(fsys, p, ts, off)
    ELSE IF ext \in {"mp4", "mov", "m4v", "3gp"}
         THEN update_movie_date(fsys, p, ts, off, mutagen)
    ELSE [exc |-> "Unsupported file type", fs |-> fsys]

\* update_date_taken: [exc, fs]
update_date_taken(fsys, p, ts, off, mutagen) ==
    IF ~exists(fsys, p) THEN [exc |-> "File not found", fs |-> fsys]
    ELSE utime_after(update_by_ext(fsys, p, ts, off, mutagen, LowerSeg(suffix(p))),
                     p, ts)

update_creation_date_noop(fsys, p, new_date, win) ==
    IF ~exists(fsys, p) THEN [exc |-> "File not found", fs |-> fsys]
    ELSE IF ~win THEN [exc |-> "", fs |-> fsys]
    ELSE [exc |-> "", fs |-> [fsys EXCEPT ![p].birth = new_date]]

\* update_creation_date: [exc, fs]
update_creation_date(fsys, p, new_date, win) ==
    IF ~exists(fsys, p) THEN [exc |-> "File not found", fs |-> fsys]
    ELSE IF ~win THEN [exc |-> "pywin32 is required for Windows", fs |-> fsys]
    ELSE [exc |-> "", fs |-> [fsys EXCEPT ![p].birth = new_date]]

\* the return of apply_timestamp_to_file after update_creation_date ran (r2)
apply_result(r2) ==
    IF r2.exc # "" THEN [updated |-> FALSE, err |-> r2.exc, fs |-> r2.fs]
    ELSE [updated |-> TRUE, err |-> "", fs |-> r2.fs]

\* apply_timestamp_to_file after update_date_taken ran (r1): its exception
\* is caught, else update_creation_date follows
apply_creation(r1, p, ct, win) ==
    IF r1.exc # "" THEN [updated |-> FALSE, err |-> r1.exc, fs |-> r1.fs]
    ELSE apply_result(update_creation_date(r1.fs, p, ct, win))

apply_timestamp_to_file_swapped(fsys, p, pt, ct, dry, off, win, mutagen) ==
    IF dry THEN [updated |-> FALSE, err |-> "dry-run", fs |-> fsys]
    ELSE apply_creation(update_date_taken(fsys, p, ct, off, mutagen), p, pt, win)

\* apply_timestamp_to_file: [updated, err, fs]
apply_timestamp_to_file(fsys, p, pt, ct, dry, off, win, mutagen) ==
    IF dry THEN [updated |-> FALSE, err |-> "dry-run", fs |-> fsys]
    ELSE apply_creation(update_date_taken(fsys, p, pt, off, mutagen), p, ct, win)

\* delete_json_file: Path.unlink(missing_ok=True)
delete_json_file(fsys, jp) ==
    [q \in DOMAIN fsys \ {jp} |-> fsys[q]]

\* ---------------------------------------------------------- safe_extract_zip
\* extraction_root as ensure_new_extraction_dir returns it: /out.  The parent
\* directory starts empty, so the first candidate name is free.
destination == << <<"out">> >>

DotDot == <<"", "", "">>
Dot == <<"", "">>
Slash == <<"">>

IsPrefix(d, p) == Len(d) <= Len(p) /\ SubSeq(p, 1, Len(d)) = d

\* Path.resolve(strict=False) of an absolute path without symlinks
RECURSIVE resolve_from(_, _, _)
resolve_from(stack, comps, i) ==
    IF i > Len(comps) THEN stack
    ELSE IF comps[i] = DotDot
         THEN resolve_from(IF stack = <<>> THEN stack ELSE Parent(stack), comps, i + 1)
    ELSE IF comps[i] \in {Dot, Slash} THEN resolve_from(stack, comps, i + 1)
    ELSE resolve_from(Append(stack, comps[i]), comps, i + 1)
resolve(p) == resolve_from(<<>>, p, 1)

\* destination / member_name: an absolute right operand replaces the left one
JoinPath(d, comps) == IF comps # <<>> /\ comps[1] = Slash THEN comps ELSE d \o comps

is_within_directory_always(directory, target) == TRUE

\* _is_within_directory: commonpath of the two resolved paths is the directory
is_within_directory(directory, target) ==
    IsPrefix(resolve(directory), resolve(target))

\* Path.mkdir(parents=True, exist_ok=True): [exc, fs]
mkdir_parents(fsys, d) ==
    LET pre == {SubSeq(d, 1, k) : k \in 1..Len(d)}
        missing == pre \ DOMAIN fsys
    IN  IF \E q \in pre : q \in DOMAIN fsys /\ fsys[q].kind # "dir"
        THEN [exc |-> "FileExistsError", fs |-> fsys]
        ELSE [exc |-> "", fs |-> [q \in DOMAIN fsys \cup missing |->
                                      IF q \in missing THEN DirRec ELSE fsys[q]]]

\* one iteration of the loop over zf.infolist(): [exc, fs].  member.filename
\* is given as its "/"-separated components; the names of the model hold no
\* backslash, so the replace("\\", "/") leaves them as they are.
extract_member(fsys, member, dest) ==
    LET member_name == member.filename
        dest_path == JoinPath(dest, member_name)
        target == resolve(dest_path)
        asdir == mkdir_parents(fsys, target)
        par == mkdir_parents(fsys, Parent(target))
    IN  IF member_name # <<>> /\ member_name[1] = Slash
        THEN [exc |-> "", fs |-> fsys]
        ELSE IF ~is_within_directory(dest, dest_path)
        THEN [exc |-> "", fs |-> fsys]
        ELSE IF member.is_dir THEN asdir
        ELSE IF par.exc # "" THEN par
        ELSE IF target \in DOMAIN par.fs /\ par.fs[target].kind = "dir"
        THEN [exc |-> "IsADirectoryError", fs |-> par.fs]
        ELSE [exc |-> "",
              fs |-> [q \in DOMAIN par.fs \cup {target} |->
                          IF q = target THEN member.file ELSE par.fs[q]]]

\* safe_extract_zip on a readable archive: [exc, fs]
RECURSIVE safe_extract_zip_from(_, _, _, _)
safe_extract_zip_from(fsys, members, dest, i) ==
    IF i > Len(members) THEN [exc |-> "", fs |-> fsys]
    ELSE LET r == extract_member(fsys, members[i], dest)
         IN  IF r.exc # "" THEN r
             ELSE safe_extract_zip_from(r.fs, members, dest, i + 1)
safe_extract_zip(fsys, members, dest) == safe_extract_zip_from(fsys, members, dest, 1)

\* iter_metadata_json_files: root.rglob('*.json'), files and directories alike
iter_metadata_json_files(fsys, root) ==
    {q \in DOMAIN fsys : Len(q) > Len(root) /\ IsPrefix(root, q)
                         /\ Len(PathName(q)) >= 2 /\ SeqLast(PathName(q)) = "json"}

\* ------------------------------------------------------------ archive inputs
Member(filename, is_dir, file) == [filename |-> filename, is_dir |-> is_dir, file |-> file]

GoodKey(whole, frac) == JsonKey("dict", JsonTs("str", whole, frac))
Sidecar(doc) == FileRec("json", doc, NoExif)
Jpeg(scene) == FileRec("jpeg", Malformed, [NoExif EXCEPT !.SceneType = scene])
Mp4 == FileRec("mp4", Malformed, NoExif)

\* the members an archive of the model is drawn from, in archive order
Pool == <<
    Member(<< <<"a","jpg">> >>, FALSE, Jpeg("int")),
    Member(<< <<"A","JPG">> >>, FALSE, Jpeg("absent")),
    Member(<< <<"v","mov">> >>, FALSE, Mp4),
    Member(<< <<"n","txt">> >>, FALSE, FileRec("junk", Malformed, NoExif)),
    Member(<< <<"a","jpg","json">> >>, FALSE,
           Sidecar(JsonDoc("object", GoodKey(1700000000, 5), GoodKey(1600000000, 0)))),
    Member(<< <<"a","jpg","meta","json">> >>, FALSE,
           Sidecar(JsonDoc("object", GoodKey(1700000000, 0), NoKey))),
    Member(<< <<"a","jpg","s","json">> >>, FALSE,
           Sidecar(JsonDoc("array", NoKey, NoKey))),
    Member(<< <<"a","JPG","json">> >>, FALSE,
           Sidecar(JsonDoc("object", GoodKey(86399, 0),
                           JsonKey("dict", JsonTs("num", 0, 9))))),
    Member(<< <<"v","mov","json">> >>, FALSE,
           Sidecar(JsonDoc("object", GoodKey(1600000000, 0), GoodKey(1700000000, 0)))),
    Member(<< <<"n","txt","json">> >>, FALSE,
           Sidecar(JsonDoc("object", GoodKey(951782400, 0), GoodKey(951782400, 0)))),
    Member(<< <<"d">> >>, TRUE, DirRec),
    Member(<< <<"d">>, <<"v","mov","json">> >>, FALSE,
           Sidecar(JsonDoc("object", JsonKey("dict", JsonTs("text", 0, 0)),
                           GoodKey(1600000000, 0)))),
    Member(<< DotDot, <<"a","jpg">> >>, FALSE, Jpeg("absent")),
    Member(<< Slash, <<"a","jpg","json">> >>, FALSE,
           Sidecar(JsonDoc("object", GoodKey(1700000000, 0), GoodKey(1600000000, 0))))
>>

SetMin(I) == CHOOSE m \in I : \A k \in I : m <= k

RECURSIVE Pick(_)
Pick(I) == IF I = {} THEN <<>>
           ELSE <<Pool[SetMin(I)]>> \o Pick(I \ {SetMin(I)})

Archives == {Pick(I) : I \in {J \in SUBSET (1..Len(Pool)) : Cardinality(J) <= MaxMembers}}

UtcOffsets == {0, 7200}

\* ------------------------------------------------------------------- main
UpdateResult(m, j, ts, updated, reason) ==
    [media_path |-> m, json_path |-> j, timestamp |-> ts,
     updated |-> updated, reason |-> reason]

NoFiles == [q \in {} |-> DirRec]

Init ==
    /\ dry_run \in BOOLEAN
    /\ case_insensitive \in BOOLEAN
    /\ WINDOWS_AVAILABLE \in BOOLEAN
    /\ MUTAGEN_AVAILABLE \in BOOLEAN
    /\ utc_offset \in UtcOffsets
    /\ archive \in Archives
    /\ fs = NoFiles
    /\ pc = "start"
    /\ walk = {}
    /\ results = <<>>
    /\ json_path = None
    /\ media_path = None
    /\ photo_taken_time = None
    /\ creation_time = None
    /\ exc = ""
    /\ log_error = ""
    /\ exit_code = -1
    /\ json_filename = None
    /\ candidate_name = None

args == <<dry_run, case_insensitive, WINDOWS_AVAILABLE, MUTAGEN_AVAILABLE,
          utc_offset, archive>>
scan_locals == <<json_path, media_path, photo_taken_time, creation_time>>
call_vars == <<json_filename, candidate_name>>

\* main returns 2 after logging msg
Return2(msg) ==
    /\ log_error' = msg
    /\ exit_code' = 2
    /\ pc' = "exited"

\* zip_path.exists() / zip_path.is_file()
CheckZip ==
    /\ pc = "start"
    /\ \E zip_state \in {"missing", "directory", "file"} :
          IF zip_state = "missing" THEN Return2("ZIP not found")
          ELSE IF zip_state = "directory" THEN Return2("Not a file")
          ELSE pc' = "mkdir" /\ UNCHANGED <<log_error, exit_code>>
    /\ UNCHANGED <<args, fs, walk, results, scan_locals, exc, call_vars>>

\* ensure_new_extraction_dir and its except clause
EnsureDir ==
    /\ pc = "mkdir"
    /\ \E ok \in BOOLEAN :
          IF ok
          THEN /\ fs' = mkdir_parents(fs, destination).fs
               /\ pc' = "extract"
               /\ UNCHANGED <<log_error, exit_code>>
          ELSE /\ Return2("Failed to create extraction directory")
               /\ UNCHANGED fs
    /\ UNCHANGED <<args, walk, results, scan_locals, exc, call_vars>>

\* safe_extract_zip and its except clause; zipfile.ZipFile raises on a
\* corrupt archive.  On success the rglob of scan_and_update is set up.
Extract ==
    /\ pc = "extract"
    /\ \E readable \in BOOLEAN :
          LET r == safe_extract_zip(fs, archive, destination)
          IN  IF ~readable
              THEN Return2("Extraction failed") /\ UNCHANGED <<fs, walk>>
              ELSE IF r.exc # ""
              THEN Return2("Extraction failed") /\ fs' = r.fs /\ UNCHANGED walk
              ELSE /\ fs' = r.fs
                   /\ walk' = iter_metadata_json_files(r.fs, destination)
                   /\ pc' = "scan"
                   /\ UNCHANGED <<log_error, exit_code>>
    /\ UNCHANGED <<args, results, scan_locals, exc, call_vars>>

\* --------------------------------------------------------- scan_and_update
\* the end of the loop body, a being what apply_timestamp_to_file returned:
\* the outcome is appended and the sidecar of a success deleted
record_outcome_keep(res, jp, m, pt, ct, a) ==
    [exc |-> "", pt |-> <<pt>>, ct |-> <<ct>>, fs |-> a.fs,
     results |-> Append(res, UpdateResult(m, jp, pt, a.updated, a.err))]

record_outcome(res, jp, m, pt, ct, a) ==
    [exc |-> "", pt |-> <<pt>>, ct |-> <<ct>>,
     fs |-> IF a.updated THEN delete_json_file(a.fs, jp) ELSE a.fs,
     results |-> Append(res, UpdateResult(m, jp, pt, a.updated, a.err))]

\* the loop body from line 310 on, pr being what parse_timestamp_from_json
\* raised or returned: [exc, fs, results, pt, ct].  Unpacking None raises
\* TypeError; an unpacked pair holds two integers, never None.
scan_body(fsys, res, jp, m, dry, off, win, mutagen, pr) ==
    IF pr.exc # ""
    THEN [exc |-> pr.exc, fs |-> fsys, results |-> res, pt |-> None, ct |-> None]
    ELSE IF pr.val = None
    THEN [exc |-> "TypeError", fs |-> fsys, results |-> res, pt |-> None, ct |-> None]
    ELSE IF <<pr.val[1]>> = None /\ <<pr.val[2]>> = None
    THEN [exc |-> "", fs |-> fsys, pt |-> None, ct |-> None,
          results |-> Append(res, UpdateResult(m, jp, -1, FALSE, "no-timestamp"))]
    ELSE record_outcome(res, jp, m, pr.val[1], pr.val[2],
             apply_timestamp_to_file(fsys, m, pr.val[1], pr.val[2], dry, off, win, mutagen))

\* one loop iteration on sidecar jp whose media file m was located
scan_iteration(fsys, res, jp, m, dry, off, win, mutagen) ==
    scan_body(fsys, res, jp, m, dry, off, win, mutagen,
              parse_timestamp_from_json(fsys, jp))

\* an iteration whose sidecar has no matching media: `continue`
ScanSkip ==
    /\ pc = "scan"
    /\ \E jp \in walk :
          /\ find_matching_media(fs, jp, case_insensitive) = None
          /\ json_path' = jp
          /\ media_path' = None
          /\ walk' = walk \ {jp}
    /\ UNCHANGED <<args, fs, pc, results, photo_taken_time, creation_time,
                   exc, log_error, exit_code, call_vars>>

\* the assignments of an iteration on jp that located m and ended as r
PairDone(jp, m, r) ==
    /\ m # None
    /\ r.exc = ""
    /\ json_path' = jp
    /\ media_path' = m
    /\ photo_taken_time' = r.pt
    /\ creation_time' = r.ct
    /\ fs' = r.fs
    /\ results' = r.results
    /\ walk' = walk \ {jp}

PairOn(jp, m) ==
    PairDone(jp, m, scan_iteration(fs, results, jp, m, dry_run, utc_offset,
                                   WINDOWS_AVAILABLE, MUTAGEN_AVAILABLE))

\* an iteration that runs to the end of the loop body
ScanPair ==
    /\ pc = "scan"
    /\ \E jp \in walk : PairOn(jp, find_matching_media(fs, jp, case_insensitive))
    /\ UNCHANGED <<args, pc, exc, log_error, exit_code, call_vars>>

RaiseDone(jp, m, r) ==
    /\ m # None
    /\ r.exc # ""
    /\ json_path' = jp
    /\ media_path' = m
    /\ exc' = r.exc
    /\ walk' = walk \ {jp}

RaiseOn(jp, m) ==
    RaiseDone(jp, m, scan_iteration(fs, results, jp, m, dry_run, utc_offset,
                                    WINDOWS_AVAILABLE, MUTAGEN_AVAILABLE))

\* an iteration that raises: nothing in scan_and_update or main catches it,
\* so the interpreter prints the traceback and the process exits with 1
ScanRaise ==
    /\ pc = "scan"
    /\ \E jp \in walk : RaiseOn(jp, find_matching_media(fs, jp, case_insensitive))
    /\ pc' = "exited"
    /\ exit_code' = 1
    /\ UNCHANGED <<args, fs, results, photo_taken_time, creation_time,
                   log_error, call_vars>>

\* the counts of main and its return value
failures(res) ==
    Cardinality({i \in 1..Len(res) :
        ~res[i].updated /\ res[i].reason \notin {"dry-run", "no-timestamp"}})

ExitStatus(res) == IF failures(res) = 0 THEN 0 ELSE 1

\* the walk is exhausted: scan_and_update returns and main returns its status
Summary ==
    /\ pc = "scan"
    /\ walk = {}
    /\ exit_code' = ExitStatus(results)
    /\ pc' = "exited"
    /\ UNCHANGED <<args, fs, walk, results, scan_locals, exc, log_error, call_vars>>

Next == CheckZip \/ EnsureDir \/ Extract \/ ScanSkip \/ ScanPair \/ ScanRaise \/ Summary

Spec == Init /\ [][Next]_vars

\* ------------------------------------------------------------------------
\* candidate_media_name_from_json on its own: every name of at most MaxSegs
\* segments over Segs is passed to the function.
Segs == {"", "a", "b", "jpg", "json", "meta"}
Names == UNION {[1..n -> Segs] : n \in 1..MaxSegs}

InitName ==
    /\ json_filename \in Names
    /\ candidate_name = None
    /\ pc = "call"
    /\ exc = ""
    /\ dry_run = FALSE /\ case_insensitive = FALSE
    /\ WINDOWS_AVAILABLE = FALSE /\ MUTAGEN_AVAILABLE = FALSE
    /\ utc_offset = 0 /\ archive = <<>> /\ fs = NoFiles /\ walk = {}
    /\ results = <<>> /\ json_path = None /\ media_path = None
    /\ photo_taken_time = None /\ creation_time = None
    /\ log_error = "" /\ exit_code = -1

CallCandidate ==
    /\ pc = "call"
    /\ candidate_name' = candidate_media_name_from_json(json_filename)
    /\ exc' = IF candidate_raises(json_filename) THEN "IndexError" ELSE ""
    /\ pc' = "returned"
    /\ UNCHANGED <<args, fs, walk, results, scan_locals, log_error, exit_code,
                   json_filename>>

NextName == CallCandidate

SpecName == InitName /\ [][NextName]_vars

\* ------------------------------------------------------------------------
\* find_matching_media on its own: a sidecar in /out or /out/d, and in /out
\* any combination of the case variants of a.jpg, each absent, a file or a
\* directory.
Variants == {<<"a","jpg">>, <<"A","jpg">>, <<"a","JPG">>, <<"A","JPG">>}
SidecarPaths == {destination \o << <<"a","jpg","json">> >>,
                 destination \o << <<"A","JPG","meta","json">> >>,
                 destination \o << <<"a","json">> >>,
                 destination \o << <<"d">>, <<"a","jpg","json">> >>}

Listing(k, jp) ==
    LET media == {destination \o <<n>> : n \in {v \in Variants : k[v] # "absent"}}
        dirs == {SubSeq(jp, 1, i) : i \in 1..(Len(jp) - 1)}
    IN  [q \in media \cup dirs \cup {jp} |->
            IF q \in dirs THEN DirRec
            ELSE IF q = jp THEN Sidecar(Malformed)
            ELSE IF k[PathName(q)] = "dir" THEN DirRec
            ELSE Jpeg("absent")]

InitFind ==
    /\ json_path \in SidecarPaths
    /\ \E k \in [Variants -> {"absent", "file", "dir"}] : fs = Listing(k, json_path)
    /\ case_insensitive \in BOOLEAN
    /\ media_path = None
    /\ pc = "call"
    /\ exc = ""
    /\ dry_run = FALSE /\ WINDOWS_AVAILABLE = FALSE /\ MUTAGEN_AVAILABLE = FALSE
    /\ utc_offset = 0 /\ archive = <<>> /\ walk = {} /\ results = <<>>
    /\ photo_taken_time = None /\ creation_time = None
    /\ log_error = "" /\ exit_code = -1
    /\ json_filename = None /\ candidate_name = None

CallFind ==
    /\ pc = "call"
    /\ media_path' = find_matching_media(fs, json_path, case_insensitive)
    /\ pc' = "returned"
    /\ UNCHANGED <<args, fs, walk, results, json_path, photo_taken_time,
                   creation_time, exc, log_error, exit_code, call_vars>>

NextFind == CallFind

SpecFind == InitFind /\ [][NextFind]_vars

\* ======================================================================
\* Properties
\* ======================================================================

\* the tree right after a successful extraction, and its sidecars
Tree0 == safe_extract_zip(mkdir_parents(NoFiles, destination).fs, archive, destination).fs
Sidecars0 == iter_metadata_json_files(Tree0, destination)
Matched(s) == find_matching_media(Tree0, s, case_insensitive) # None
OutcomesOf(s) == {i \in 1..Len(results) : results[i].json_path = s}
ScanEntered == pc \in {"scan", "exited"} /\ log_error = ""

\* a returned call of candidate_media_name_from_json on a name ending in .json
NameReturned == pc = "returned" /\ json_filename # None /\ exc = ""
                /\ Len(json_filename) >= 2 /\ SeqLast(json_filename) = "json"
WithoutLast(name, k) == SubSeq(name, 1, Len(name) - k)

\* C4 as claimed: for every sidecar filename <name>.<ext>.<marker>.json or
\* <name>.<ext>.json, <name> possibly holding dots and <ext> not being
\* "json", the function returns <name>.<ext>.
C4_Original ==
    NameReturned =>
        /\ (Len(json_filename) >= 3 /\ json_filename[Len(json_filename) - 1] # "json")
              => candidate_name = WithoutLast(json_filename, 1)
        /\ (Len(json_filename) >= 4 /\ json_filename[Len(json_filename) - 2] # "json")
              => candidate_name = WithoutLast(json_filename, 2)

\* C4 amended: for <name>.<ext>.<marker>.json (one middle segment, <name>
\* possibly holding dots) and for <name>.<ext>.json with a dot-free <name>,
\* <ext> not being "json", the function returns <name>.<ext>; a name with
\* three or more dots is always read in the marker form.
C4_CandidateIsNameExt ==
    NameReturned =>
        /\ (Len(json_filename) = 3 /\ json_filename[2] # "json")
              => candidate_name = WithoutLast(json_filename, 1)
        /\ (Len(json_filename) >= 4 /\ json_filename[Len(json_filename) - 2] # "json")
              => candidate_name = WithoutLast(json_filename, 2)

C4_Witness ==
    /\ NameReturned
    /\ json_filename = <<"a", "b", "jpg", "meta", "json">>
    /\ candidate_name = <<"a", "b", "jpg">>

\* C5 as claimed: a filename ending in .json whose second-to-last segment
\* is "json" yields None.
C5_Original ==
    (NameReturned /\ json_filename[Len(json_filename) - 1] = "json")
        => candidate_name = None

\* C5 amended: with at most two dots, a filename ending in .json whose
\* second-to-last segment is "json" yields None; with three or more dots the
\* function yields None exactly when the third-to-last segment is "json"
\* (a.jpg.json.json yields a.jpg).
C5_JsonGuard ==
    NameReturned =>
        /\ (Len(json_filename) <= 3 /\ json_filename[Len(json_filename) - 1] = "json")
              => candidate_name = None
        /\ Len(json_filename) >= 4
              => (candidate_name = None <=> json_filename[Len(json_filename) - 2] = "json")

C5_Witness ==
    /\ NameReturned
    /\ json_filename = <<"a", "json", "json">>
    /\ candidate_name = None

\* a returned call of find_matching_media in case-insensitive mode on a
\* sidecar whose name yields a candidate
HasNameExt(name) ==
    \/ Len(name) = 3 /\ name[2] # "json" /\ name[3] = "json"
    \/ Len(name) >= 4 /\ name[Len(name) - 2] # "json" /\ SeqLast(name) = "json"
NameExt(name) == IF Len(name) = 3 THEN WithoutLast(name, 1) ELSE WithoutLast(name, 2)
FindReturned == pc = "returned" /\ json_filename = None /\ json_path # None
                /\ case_insensitive /\ HasNameExt(PathName(json_path))
CandidateOf(jp) == NameExt(PathName(jp))
CaseMatches(jp) ==
    {q \in DOMAIN fs : /\ Len(q) = Len(jp) /\ Parent(q) = Parent(jp)
                       /\ fs[q].kind = "file"
                       /\ Lower(PathName(q)) = Lower(CandidateOf(jp))}

\* C6 as claimed: a match is returned only when exactly one file of the
\* directory matches case-insensitively; with two or more, or none, the
\* result is None.
C6_Original ==
    FindReturned =>
        /\ media_path # None => Cardinality(CaseMatches(json_path)) = 1
        /\ Cardinality(CaseMatches(json_path)) # 1 => media_path = None

\* C6 amended: an entry bearing the exact candidate name is returned
\* whatever else the directory holds; when there is none, the result is the
\* unique file matching case-insensitively, and None if there are none or
\* several.
C6_UniqueCaseMatch ==
    FindReturned =>
        LET direct == with_name(json_path, CandidateOf(json_path))
            M == CaseMatches(json_path)
        IN  IF direct \in DOMAIN fs THEN media_path = direct
            ELSE IF Cardinality(M) = 1 THEN media_path \in M
            ELSE media_path = None

C6_Witness ==
    /\ FindReturned
    /\ with_name(json_path, CandidateOf(json_path)) \notin DOMAIN fs
    /\ Cardinality(CaseMatches(json_path)) >= 2
    /\ media_path = None

\* the sidecar of the current iteration is on disk, its media file was
\* located, and parse_timestamp_from_json returns None for it
ExtractionFailed ==
    /\ ScanEntered
    /\ json_path # None /\ media_path # None
    /\ json_path \in DOMAIN fs
    /\ parse_timestamp_from_json(fs, json_path) = [exc |-> "", val |-> None]

\* C1 as claimed: a sidecar whose media file is located but whose timestamps
\* cannot be extracted gets one outcome with updated=False and reason
\* no-timestamp, and the scan does not abort on it.
C1_NoTimestampOutcome ==
    ExtractionFailed =>
        /\ exc = ""
        /\ \E i \in OutcomesOf(json_path) :
              ~results[i].updated /\ results[i].reason = "no-timestamp"

\* C2 as claimed: once the scan is over, every sidecar with a located media
\* file has exactly one outcome, every other sidecar has none and is still
\* on disk.
C2_OneOutcomePerMatch ==
    (pc = "exited" /\ log_error = "") =>
        \A s \in Sidecars0 :
            IF Matched(s) THEN Cardinality(OutcomesOf(s)) = 1
            ELSE OutcomesOf(s) = {} /\ s \in DOMAIN fs

\* C3 as claimed: under dry_run the scan leaves every file as extraction
\* left it, and once it is over every sidecar with a located media file has
\* exactly one outcome, whose reason is dry-run.
C3_DryRun ==
    (dry_run /\ ScanEntered) =>
        /\ fs = Tree0
        /\ pc = "exited" =>
              \A s \in Sidecars0 :
                  Matched(s) => /\ Cardinality(OutcomesOf(s)) = 1
                                /\ \A i \in OutcomesOf(s) : results[i].reason = "dry-run"

\* the last iteration recorded a success on a .mov/.mp4 file
MovieUpdated ==
    /\ ScanEntered
    /\ results # <<>>
    /\ SeqLast(results).updated
    /\ SeqLast(results).json_path = json_path
    /\ SeqLast(results).media_path = media_path
    /\ LowerSeg(suffix(media_path)) \in {"mov", "mp4"}

\* C7 as claimed: after a successful update of a .mov/.mp4 file its
\* creation-date tag is the formatted creation_time of the sidecar and its
\* modify time is capture_time.
C7_Original ==
    MovieUpdated =>
        /\ fs[media_path].tags.day = strftime("iso", creation_time[1], utc_offset)
        /\ fs[media_path].mtime = photo_taken_time[1]

\* C7 amended: after a successful update of a .mov/.mp4 file its
\* creation-date tag is the formatted capture_time (photoTakenTime) of the
\* sidecar, not its creation_time, and its modify time is capture_time.
C7_MovieTagIsCaptureTime ==
    MovieUpdated =>
        /\ fs[media_path].tags.day = strftime("iso", photo_taken_time[1], utc_offset)
        /\ fs[media_path].mtime = photo_taken_time[1]

C7_Witness ==
    /\ MovieUpdated
    /\ photo_taken_time # creation_time
    /\ fs[media_path].tags.day = <<"iso", 2020, 9, 13, 14, 26, 40>>

\* C8: from the start of the scan on, a sidecar is off the disk exactly
\* when an outcome with updated=True was recorded for it; sidecars with a
\* dry-run or error outcome, or with none, are still there.
C8_DeletedIffUpdated ==
    ScanEntered =>
        \A s \in Sidecars0 :
            s \notin DOMAIN fs <=> \E i \in OutcomesOf(s) : results[i].updated

C8_Witness ==
    /\ pc = "exited" /\ log_error = "" /\ exc = ""
    /\ \E i, j \in 1..Len(results) :
          /\ results[i].updated /\ results[i].json_path \notin DOMAIN fs
          /\ ~results[j].updated /\ results[j].json_path \in DOMAIN fs

\* C9 as claimed: the exit code is 2 when main logged an archive, directory
\* or extraction error, else 1 when some outcome is a failure other than
\* dry-run/no-timestamp, else 0.
C9_ExitCode ==
    pc = "exited" =>
        exit_code = IF log_error # "" THEN 2
                    ELSE IF failures(results) > 0 THEN 1 ELSE 0

\* every member is an absolute path or starts with "..", and there is one
AllRejected ==
    /\ archive # <<>>
    /\ \A i \in 1..Len(archive) : archive[i].filename[1] \in {Slash, DotDot}

\* C10 as claimed: when every member is rejected the scan is never started
\* and main returns a non-zero exit code.
C10_Original ==
    AllRejected => /\ pc # "scan"
                   /\ pc = "exited" => exit_code # 0

\* C10 amended: when every member is rejected, extraction writes nothing and
\* raises nothing; unless the archive cannot be read, main goes on to scan
\* the empty tree, records no outcome and returns 0.
C10_AllRejectedScansEmpty ==
    (AllRejected /\ ScanEntered) =>
        /\ DOMAIN fs = {destination}
        /\ results = <<>>
        /\ pc = "exited" => exit_code = 0

C10_Witness ==
    /\ AllRejected /\ Len(archive) = 2
    /\ pc = "exited" /\ log_error = "" /\ exit_code = 0

\* the last iteration ran a non-dry-run apply_timestamp_to_file without
\* platform creation-time support on a file its metadata writer handles: a
\* JPEG image named .jpg/.jpeg, or an MP4 container named .mp4/.mov/.m4v/.3gp
\* with mutagen importable
AppliedWithoutWindows ==
    /\ ScanEntered
    /\ ~WINDOWS_AVAILABLE /\ ~dry_run
    /\ results # <<>>
    /\ SeqLast(results).json_path = json_path
    /\ SeqLast(results).media_path = media_path
    /\ media_path \in DOMAIN fs
    /\ fs[media_path].kind = "file"
    /\ \/ /\ LowerSeg(suffix(media_path)) \in {"jpg", "jpeg"}
          /\ fs[media_path].fmt = "jpeg"
       \/ /\ LowerSeg(suffix(media_path)) \in {"mp4", "mov", "m4v", "3gp"}
          /\ fs[media_path].fmt = "mp4"
          /\ MUTAGEN_AVAILABLE

\* the capture-time metadata of file f holds the formatted time ts
MetadataIs(f, name, ts, off) ==
    IF LowerSeg(SeqLast(name)) \in {"jpg", "jpeg"}
    THEN /\ f.exif.DateTime = strftime("exif", ts, off)
         /\ f.exif.DateTimeOriginal = strftime("exif", ts, off)
         /\ f.exif.DateTimeDigitized = strftime("exif", ts, off)
    ELSE /\ f.tags.day = strftime("iso", ts, off)
         /\ f.tags.mod = strftime("iso", ts, off)

\* C11: without platform creation-time support a non-dry-run apply on an
\* existing supported media file writes the metadata and sets mtime/atime to
\* capture_time, then fails at the creation-time step without undoing them:
\* the pair is recorded as a failure whose reason is neither dry-run nor
\* no-timestamp, its sidecar stays on disk, the creation time is untouched.
C11_NoRollbackWithoutWindows ==
    AppliedWithoutWindows =>
        /\ ~SeqLast(results).updated
        /\ SeqLast(results).reason \notin {"", "dry-run", "no-timestamp"}
        /\ failures(results) > 0
        /\ json_path \in DOMAIN fs
        /\ fs[media_path].mtime = photo_taken_time[1]
        /\ fs[media_path].atime = photo_taken_time[1]
        /\ MetadataIs(fs[media_path], PathName(media_path), photo_taken_time[1], utc_offset)
        /\ fs[media_path].birth = NowTime
        /\ fs[media_path] # Tree0[media_path]

C11_Witness ==
    /\ AppliedWithoutWindows
    /\ pc = "exited" /\ exit_code = 1 /\ exc = ""
    /\ SeqLast(results).reason = "pywin32 is required for Windows"
    /\ fs[media_path].exif.DateTimeOriginal = <<"exif", 2023, 11, 15, 0, 13, 20>>
    /\ fs[media_path].exif.SceneType = "bytes"
====
